---- MODULE Spec2Model ----
(***************************************************************************)
(* Model of the page-analyser worker (src/src/worker.ts) and of its        *)
(* per-user history store, the InspectorDO Durable Object                  *)
(* (src/src/inspector-do.ts).                                              *)
(*                                                                         *)
(* One action is one run of a handler between two awaits.  Requests to the *)
(* worker run concurrently; the only state they share is the Durable       *)
(* Object of their user key.  A Durable Object runs one piece of           *)
(* JavaScript at a time; handlers interleave at their awaits, except that  *)
(* no event is delivered to the object while blockConcurrencyWhile runs or *)
(* while a storage operation of the object is pending (its input gate).    *)
(***************************************************************************)
EXTENDS Integers, Sequences, FiniteSets, TLC

\* ------------------------------------------------------------------ bounds

\* Number of requests the worker receives in one behaviour of Spec.
MaxRequests == 2

\* Number of requests the worker receives in one behaviour of StoreSpec.
MaxStoreRequests == 2

\* Number of elements in the markup of a page.
MaxTags == 3

\* inspector-do.ts:81-82  the cap of the history log
MaxReports == 50


\* A user key is the user_id token.  Key 0 is a returning user whose cookie
\* is known to the clients; key r (r > 0) is the token crypto.randomUUID()
\* mints for request r, unique to that call.
KnownUser == 0
NoCookie == -1
\* A cookie header that holds user_id with an empty value ("user_id=" or
\* "user_id=; theme=dark").
EmptyToken == -2

\* Lengths of the log that an earlier incarnation of the store of KnownUser
\* left in persistence.  Spec, which follows each request through the whole
\* pipeline, starts from an empty log or a log of one report; StoreSpec,
\* which is about the cap, from an empty log or a log at the cap or one
\* below it.
StoredLens == {0, 1}
StoreStoredLens == {0, MaxReports - 1, MaxReports}

Undefined == -1

VARIABLES
    apiKey,     \* env.PAGESPEED_API_KEY is configured
    clock,      \* the wall clock read by new Date()
    req,        \* per request: position in its handler and its locals
    doReady,    \* per key: the constructor's blockConcurrencyWhile has finished
    reports,    \* per key: InspectorDO.reports (in memory)
    storage,    \* per key: the value persisted under 'reports'
    putting,    \* per key: the storage.put in progress, <<>> or <<[req, value]>>
    added,      \* per key (history): id of every report ever unshifted, newest first
    arrival,    \* per key (history): add requests in the order the store received them
    acked,      \* per key (history): add requests in the order the store answered them
    calc        \* the call of one function under evaluation: its arguments and its result

vars == <<apiKey, clock, req, doReady, reports, storage, putting, added, arrival,
          acked, calc>>

Reqs == DOMAIN req
Keys == DOMAIN doReady

\* ------------------------------------------------------------ Core Web Vitals

Metrics5 == {"lcp", "fid", "cls", "fcp", "ttfb"}

\* Faulty variant of GetStatus: a score of exactly 0.9 is not yet good.
GetStatusAbove(score) ==
    IF score = Undefined THEN "unavailable"
    ELSE IF score > 90 THEN "good"
    ELSE IF score >= 50 THEN "needs-improvement"
    ELSE "poor"

\* worker.ts:223-228
GetStatus(score) ==
    IF score = Undefined THEN "unavailable"
    ELSE IF score >= 90 THEN "good"
    ELSE IF score >= 50 THEN "needs-improvement"
    ELSE "poor"

Digits2(n) == (IF n < 10 THEN "0" ELSE "") \o ToString(n)

\* worker.ts:231-235  value in hundredths; toFixed(2) keeps two decimals
FormatMetric(hundredths, unit) ==
    IF unit = "millisecond" THEN ToString((hundredths + 50) \div 100) \o "ms"
    ELSE ToString(hundredths \div 100) \o "." \o Digits2(hundredths % 100) \o unit

Entry(status, value, score) == [status |-> status, value |-> value, score |-> score]

AllUnavailable(message) ==
    [lcp |-> Entry("unavailable", message, Undefined),
     fid |-> Entry("unavailable", message, Undefined),
     cls |-> Entry("unavailable", message, Undefined),
     fcp |-> Entry("unavailable", message, Undefined),
     ttfb |-> Entry("unavailable", message, Undefined),
     source |-> "unavailable"]

\* worker.ts:192-201
NoKeyVitals == AllUnavailable("API key required")

\* Faulty variant of FailedVitals: the catch block reuses the message of the
\* no-credential case.
FailedVitalsSameMessage == AllUnavailable("API key required")

\* Faulty variant of FailedVitals: the catch block leaves a status computed before
\* the failure.
FailedVitalsStaleStatus ==
    [AllUnavailable("Measurement failed") EXCEPT !.ttfb.status = "poor"]

\* worker.ts:288-299
FailedVitals == AllUnavailable("Measurement failed")

\* A lab audit of the PageSpeed response: absent, or a score (hundredths of
\* the 0-1 score, Undefined when the audit carries none) and a display value.
NoAudit == [present |-> FALSE, score |-> Undefined, displayValue |-> ""]
Audit(score, display) == [present |-> TRUE, score |-> score, displayValue |-> display]

\* A field (Chrome UX report) metric: absent, or a percentile.
NoField == [present |-> FALSE, percentile |-> 0]
Field(p) == [present |-> TRUE, percentile |-> p]

\* worker.ts:259-261  one entry of the returned value
LabEntry(audit, field, scale) ==
    Entry(GetStatus(IF audit.present THEN audit.score ELSE Undefined),
          IF audit.present /\ audit.displayValue # "" THEN audit.displayValue
          ELSE IF field.present THEN FormatMetric(field.percentile * scale, "ms")
          ELSE "N/A",
          IF audit.present THEN audit.score ELSE Undefined)

\* worker.ts:270  CLS: percentile / 100, formatted with the empty unit
ClsEntry(audit, field) ==
    Entry(GetStatus(IF audit.present THEN audit.score ELSE Undefined),
          IF audit.present /\ audit.displayValue # "" THEN audit.displayValue
          ELSE IF field.present THEN FormatMetric(field.percentile, "")
          ELSE "N/A",
          IF audit.present THEN audit.score ELSE Undefined)

\* worker.ts:216-286  the value built from a successful PageSpeed response
MeasuredVitals(data) ==
    [lcp |-> LabEntry(data.audits.lcp, data.field.lcp, 100),
     fid |-> LabEntry(data.audits.fid, data.field.fid, 100),
     cls |-> ClsEntry(data.audits.cls, data.field.cls),
     fcp |-> LabEntry(data.audits.fcp, data.field.fcp, 100),
     ttfb |-> LabEntry(data.audits.ttfb, NoField, 100),
     source |-> "pagespeed"]

\* PageSpeed responses the measurement API answers with.
PsiFull ==
    [audits |-> [lcp |-> Audit(95, "1.2 s"), fid |-> Audit(70, "180 ms"),
                 cls |-> Audit(30, "0.31"), fcp |-> Audit(Undefined, ""),
                 ttfb |-> NoAudit],
     field |-> [lcp |-> Field(2400), fid |-> NoField, cls |-> Field(12),
                fcp |-> Field(1800)]]

PsiEmpty ==
    [audits |-> [lcp |-> NoAudit, fid |-> NoAudit, cls |-> NoAudit,
                 fcp |-> NoAudit, ttfb |-> NoAudit],
     field |-> [lcp |-> NoField, fid |-> NoField, cls |-> NoField,
                fcp |-> NoField]]

PsiResponses == {PsiFull, PsiEmpty}

\* Outcomes of the measurement call: fetch() throws, a non-success status,
\* a body that is not JSON, or a response.
PsiFailures == {"throws", "not-ok", "bad-json"}

\* worker.ts:203-299  the value fetchCoreWebVitals returns once the call ended
VitalsOf(outcome, data) ==
    IF outcome \in PsiFailures THEN FailedVitals ELSE MeasuredVitals(data)

\* The three outcomes of section 4.2.
VitalsClass(outcome) == IF outcome \in PsiFailures THEN "failed" ELSE "measured"

UnsetVitals == [AllUnavailable("") EXCEPT !.source = "unset"]

\* ------------------------------------------------------------------ reports

\* worker.ts:487-519  what the generative call gives: it throws, its text has
\* no JSON object, the object does not parse, one of scores / findings /
\* recommendations is missing, or the object is accepted.
AiOutcomes == {"throws", "no-json", "parse-error", "missing-field", "valid"}

\* worker.ts:496-519  which analysis analyzeWithAI returns
AnalysisOrigin(outcome) == IF outcome = "valid" THEN "ai" ELSE "fallback"

UnsetAnalysis == [origin |-> "none", coreWebVitals |-> UnsetVitals]

\* worker.ts:152-160  (reportText is the serialized analysis)
MakeReport(id, analysis, now) ==
    [id |-> id, reportText |-> analysis, createdAt |-> now]

NoReport == MakeReport(0, UnsetAnalysis, 0)

\* A report persisted by an earlier incarnation of the store; -1 is the
\* newest of them.
OldReport(i) ==
    MakeReport(-i, [origin |-> "fallback", coreWebVitals |-> NoKeyVitals], -i)

OldLog(n) == [i \in 1..n |-> OldReport(i)]

\* ----------------------------------------------------------------- requests

\* Bodies of POST /api/analyze: not JSON at all, the JSON value null, an
\* object without url, url = "", url = 0, url = 123, a string with another
\* scheme, and the two accepted schemes.
Bodies == {"not-json", "null", "no-url", "empty", "zero", "number",
           "other-scheme", "http", "https"}

\* worker.ts:100  request.json() rejects, or destructuring null throws
BodyThrows(body) == body \in {"not-json", "null"}

\* worker.ts:103  !targetUrl
UrlFalsy(body) == body \in {"no-url", "empty", "zero"}

\* worker.ts:103  targetUrl.startsWith is not a function on a number
StartsWithThrows(body) == body = "number"

\* What the model keeps of targetUrl once it has passed the validation.
UrlClass(body) == IF body \in {"http", "https"} THEN "valid" ELSE body

NoResponse == [status |-> 0, body |-> "none", setCookie |-> NoCookie]

NoCalls == [page |-> 0, psi |-> 0, ai |-> 0, add |-> 0, list |-> 0]

IdleRequest ==
    [pc |-> "idle", kind |-> "none", cookie |-> NoCookie, body |-> "",
     userId |-> NoCookie, pout |-> "", vout |-> "", cwv |-> UnsetVitals,
     report |-> NoReport, doStatus |-> 0, snapshot |-> <<>>,
     cold |-> FALSE, seen |-> 0, resp |-> NoResponse, calls |-> NoCalls]

\* worker.ts:583-591  /user_id=([^;]+)/ finds a token in the cookie header,
\* or crypto.randomUUID() mints the token of request r.
TokenOf(cookie, r) == IF cookie \notin {NoCookie, EmptyToken} THEN cookie ELSE r

\* worker.ts:582-592
GetUserId(r) == TokenOf(req[r].cookie, r)

\* worker.ts:180-182 and 321-323
SetCookieOf(r) == IF req[r].cookie = NoCookie THEN GetUserId(r) ELSE NoCookie

\* worker.ts:87-92  the router's catch
ServerError == [status |-> 500, body |-> "error", setCookie |-> NoCookie]

\* worker.ts:104-107 and 133-136
ClientError == [status |-> 400, body |-> "error", setCookie |-> NoCookie]

\* Faulty variant of Bump: a call that fails is issued once more.
BumpWithRetry(calls, what) == [calls EXCEPT ![what] = @ + 2]

Bump(calls, what) == [calls EXCEPT ![what] = @ + 1]

Set(r, rec) == req' = [req EXCEPT ![r] = rec]

\* Faulty variant of PageFailed: response.ok is not looked at.
PageFailedOnThrowOnly(outcome) == outcome = "throws"

\* worker.ts:122-124 and 132  the page fetch threw or its status is not ok
PageFailed(outcome) == outcome # "ok"

DOVars == <<doReady, reports, storage, putting, added, arrival, acked>>

\* -------------------------------------------------------------------- Init

\* No function is under evaluation on its own.
NoCalc == [fn |-> "none"]

Ids(log) == [i \in 1..Len(log) |-> log[i].id]

\* The state before the first of n requests: no object is in memory, and the
\* store of KnownUser holds what earlier requests persisted.
InitWith(n, lens) ==
    /\ apiKey \in BOOLEAN
    /\ clock = 1
    /\ req = [r \in 1..n |-> IdleRequest]
    /\ doReady = [k \in 0..n |-> FALSE]
    /\ reports = [k \in 0..n |-> <<>>]
    /\ \E len \in lens :
          storage = [k \in 0..n |-> IF k = KnownUser THEN OldLog(len) ELSE <<>>]
    /\ putting = [k \in 0..n |-> <<>>]
    /\ added = [k \in 0..n |-> Ids(storage[k])]
    /\ arrival = [k \in 0..n |-> <<>>]
    /\ acked = [k \in 0..n |-> <<>>]
    /\ calc = NoCalc

Init == InitWith(MaxRequests, StoredLens)

\* ------------------------------------------------------------------- worker

\* worker.ts:68-83  the router takes a request of a client that has the
\* answers to its earlier requests; requests are numbered in the order they
\* come in.  POST /api/analyze awaits its body; GET /api/history
\* (worker.ts:305-310) calls the store of its user at once.
Receive(r) ==
    /\ req[r].pc = "idle"
    /\ \A q \in Reqs : q < r => req[q].pc = "done"
    /\ \E kind \in {"analyze", "history"}, cookie \in {NoCookie, EmptyToken, KnownUser} :
          LET k == TokenOf(cookie, r) IN
          Set(r, IF kind = "analyze"
                 THEN [req[r] EXCEPT !.pc = "parse", !.kind = kind, !.cookie = cookie]
                 ELSE [req[r] EXCEPT !.pc = "list", !.kind = kind, !.cookie = cookie,
                                     !.userId = k, !.cold = ~doReady[k],
                                     !.calls = Bump(@, "list")])
    /\ UNCHANGED <<calc, apiKey, clock, DOVars>>

\* worker.ts:100-119  the body arrives; the URL is validated and the page
\* fetch is started.
ParseBody(r) ==
    /\ req[r].pc = "parse"
    /\ \E body \in Bodies :
          Set(r, IF BodyThrows(body) \/ (~UrlFalsy(body) /\ StartsWithThrows(body))
                 THEN [req[r] EXCEPT !.pc = "done", !.body = body, !.resp = ServerError]
                 ELSE IF UrlFalsy(body) \/ body \notin {"http", "https"}
                 THEN [req[r] EXCEPT !.pc = "done", !.body = body, !.resp = ClientError]
                 ELSE [req[r] EXCEPT !.pc = "page", !.body = UrlClass(body),
                                     !.calls = Bump(@, "page")])
    /\ UNCHANGED <<calc, apiKey, clock, DOVars>>

\* worker.ts:113-143 and 190-206  the page fetch ends.  A failure answers
\* 400.  Otherwise the metrics are extracted and fetchCoreWebVitals runs:
\* without a key it returns at once and the generative call is started,
\* with a key the measurement call is started.
PageFetched(r) ==
    /\ req[r].pc = "page"
    /\ \E outcome \in {"throws", "not-ok", "ok"} :
          Set(r, IF PageFailed(outcome)
                 THEN [req[r] EXCEPT !.pc = "done", !.pout = outcome,
                                     !.resp = ClientError]
                 ELSE IF ~apiKey
                 THEN [req[r] EXCEPT !.pc = "ai", !.pout = outcome, !.vout = "no-key",
                                     !.cwv = NoKeyVitals, !.calls = Bump(@, "ai")]
                 ELSE [req[r] EXCEPT !.pc = "psi", !.pout = outcome,
                                     !.calls = Bump(@, "psi")])
    /\ UNCHANGED <<calc, apiKey, clock, DOVars>>

\* worker.ts:206-299 and 146, 487-494  the measurement call ends; the
\* generative call is started.
VitalsFetched(r) ==
    /\ req[r].pc = "psi"
    /\ \E outcome \in PsiFailures \cup {"ok"}, data \in PsiResponses :
          Set(r, [req[r] EXCEPT !.pc = "ai", !.vout = VitalsClass(outcome),
                                !.cwv = VitalsOf(outcome, data),
                                !.calls = Bump(@, "ai")])
    /\ UNCHANGED <<calc, apiKey, clock, DOVars>>

\* worker.ts:496-520 and 146-169  the generative call ends; the vitals are
\* attached, the report is created and sent to the store of the user.
AIReturned(r) ==
    /\ req[r].pc = "ai"
    /\ \E outcome \in AiOutcomes :
          LET analysis == [origin |-> AnalysisOrigin(outcome),
                           coreWebVitals |-> req[r].cwv]
              k == GetUserId(r)
          IN Set(r, [req[r] EXCEPT
                        !.pc = "store", !.userId = k, !.cold = ~doReady[k],
                        !.report = MakeReport(r, analysis, clock),
                        !.calls = Bump(@, "add")])
    /\ clock' = clock + 1
    /\ UNCHANGED <<calc, apiKey, DOVars>>

\* worker.ts:166-184  stub.fetch returns; its response is not looked at.
StoreReturned(r) ==
    /\ req[r].pc = "acked"
    /\ Set(r, [req[r] EXCEPT !.pc = "done",
                  !.resp = [status |-> 200, body |-> "report",
                            setCookie |-> SetCookieOf(r)]])
    /\ UNCHANGED <<calc, apiKey, clock, DOVars>>

\* worker.ts:310-325
HistoryReturned(r) ==
    /\ req[r].pc = "listed"
    /\ Set(r, [req[r] EXCEPT !.pc = "done",
                  !.resp = [status |-> 200, body |-> "history",
                            setCookie |-> SetCookieOf(r)]])
    /\ UNCHANGED <<calc, apiKey, clock, DOVars>>

\* ------------------------------------------------------------ history store

\* Faulty variant of Unshift: the report overwrites the head (this.reports[0] = report).
UnshiftOverHead(log, report) == <<report>> \o (IF log = <<>> THEN <<>> ELSE Tail(log))

\* Faulty variant of Unshift: the report is pushed at the tail.
UnshiftAtTail(log, report) == log \o <<report>>

\* inspector-do.ts:78
Unshift(log, report) == <<report>> \o log

\* Faulty variant of Truncate: slice(-50) keeps the tail, the oldest reports.
TruncateKeepingOldest(log) ==
    IF Len(log) > MaxReports THEN SubSeq(log, Len(log) - MaxReports + 1, Len(log)) ELSE log

\* inspector-do.ts:81-83
Truncate(log) == IF Len(log) > MaxReports THEN SubSeq(log, 1, MaxReports) ELSE log

\* inspector-do.ts:50  stored || []
Loaded(stored) == stored

\* Faulty variant of InputGateOpen: the load is not wrapped in blockConcurrencyWhile.
InputGateWithoutBarrier(k) == putting[k] = <<>>

\* Faulty variant of InputGateOpen: one gate is shared by the objects of all keys.
InputGateShared(k) == doReady[k] /\ \A j \in Keys : putting[j] = <<>>

\* inspector-do.ts:48 and 85  events reach the handlers of the object of key
\* k only after blockConcurrencyWhile has finished and while no storage
\* operation of the object is pending.
InputGateOpen(k) == doReady[k] /\ putting[k] = <<>>

\* Faulty variant of Persisted: the put is not awaited, the answer leaves before the
\* write has been applied.
PersistedLater(old, value, ok) == old

\* Faulty variant of Persisted: the log is written as it was before the unshift.
PersistedBeforeUnshift(old, value, ok) == IF ok THEN Tail(value) ELSE old

\* inspector-do.ts:85  what is persisted once the put has ended
Persisted(old, value, ok) == IF ok THEN value ELSE old

\* Faulty variant of AddStatus: the rejection of the write is swallowed.
AddStatusAlwaysOk(ok) == 200

\* inspector-do.ts:66-70 and 87-89
AddStatus(ok) == IF ok THEN 200 ELSE 500

\* inspector-do.ts:93
Snapshot(log) == log

Pending(k) == \E r \in Reqs : req[r].userId = k /\ req[r].pc \in {"store", "list"}

\* inspector-do.ts:46-52  the object of key k is created for its first
\* request and loads the persisted log.
DOLoad(k) ==
    /\ ~doReady[k]
    /\ Pending(k)
    /\ doReady' = [doReady EXCEPT ![k] = TRUE]
    /\ reports' = [reports EXCEPT ![k] = Loaded(storage[k])]
    /\ UNCHANGED <<calc, apiKey, clock, req, storage, putting, added, arrival, acked>>

\* inspector-do.ts:54-60 and 75  POST /add reaches the object; addReport
\* awaits the body of the request.
DOReceiveAdd(r) ==
    LET k == req[r].userId IN
    /\ req[r].pc = "store"
    /\ InputGateOpen(k)
    /\ Set(r, [req[r] EXCEPT !.pc = "do_body"])
    /\ arrival' = [arrival EXCEPT ![k] = Append(@, r)]
    /\ UNCHANGED <<calc, apiKey, clock, doReady, reports, storage, putting, added, acked>>

\* inspector-do.ts:75-85  the body has been read: the report is put at the
\* head of the log, the log is cut to the cap and the write is started.
DOBodyRead(r) ==
    LET k == req[r].userId
        log == Truncate(Unshift(reports[k], req[r].report))
    IN
    /\ req[r].pc = "do_body"
    /\ InputGateOpen(k)
    /\ reports' = [reports EXCEPT ![k] = log]
    /\ putting' = [putting EXCEPT ![k] = <<[req |-> r, value |-> log]>>]
    /\ added' = [added EXCEPT ![k] = <<req[r].report.id>> \o @]
    /\ Set(r, [req[r] EXCEPT !.pc = "do_put"])
    /\ UNCHANGED <<calc, apiKey, clock, doReady, storage, arrival, acked>>

\* inspector-do.ts:85-89 and 66-70  the write ends: the object answers
\* success, or the rejection is caught by fetch and answered with 500.
DOPutDone(r) ==
    LET k == req[r].userId IN
    /\ req[r].pc = "do_put"
    /\ putting[k] # <<>> /\ putting[k][1].req = r
    /\ \E ok \in BOOLEAN :
          /\ storage' = [storage EXCEPT ![k] = Persisted(@, putting[k][1].value, ok)]
          /\ Set(r, [req[r] EXCEPT !.pc = "acked", !.doStatus = AddStatus(ok)])
          /\ acked' = [acked EXCEPT ![k] = IF ok THEN Append(@, r) ELSE @]
    /\ putting' = [putting EXCEPT ![k] = <<>>]
    /\ UNCHANGED <<calc, apiKey, clock, doReady, reports, added, arrival>>

\* inspector-do.ts:61-62 and 92-96  GET /list reaches the object and is
\* answered with the log in memory.
DOList(r) ==
    LET k == req[r].userId IN
    /\ req[r].pc = "list"
    /\ InputGateOpen(k)
    /\ Set(r, [req[r] EXCEPT !.pc = "listed", !.doStatus = 200,
                             !.snapshot = Snapshot(reports[k]),
                             !.seen = Len(added[k])])
    /\ UNCHANGED <<calc, apiKey, clock, DOVars>>

\* worker.ts:68-83, 99-169 and 305-310  a request comes in while others are
\* in flight and runs up to its call of the store.  The steps of
\* handleAnalyze before stub.fetch touch only locals of the request, so they
\* are taken as one step here, for a page that is fetched, a measurement that
\* fails when a key is configured, and a completion that is not JSON.
Submit(r) ==
    /\ req[r].pc = "idle"
    /\ \A q \in Reqs : q < r => req[q].pc # "idle"
    /\ \E kind \in {"analyze", "history"}, cookie \in {NoCookie, KnownUser} :
          LET k == IF cookie # NoCookie THEN cookie ELSE r
              cwv == IF apiKey THEN VitalsOf("throws", PsiEmpty) ELSE NoKeyVitals
              analysis == [origin |-> AnalysisOrigin("no-json"), coreWebVitals |-> cwv]
          IN
          /\ Set(r, IF kind = "analyze"
                    THEN [req[r] EXCEPT
                            !.pc = "store", !.kind = kind, !.cookie = cookie,
                            !.body = UrlClass("https"), !.userId = k, !.pout = "ok",
                            !.vout = IF apiKey THEN VitalsClass("throws") ELSE "no-key",
                            !.cwv = cwv, !.cold = ~doReady[k],
                            !.report = MakeReport(r, analysis, clock),
                            !.calls = [page |-> 1, psi |-> IF apiKey THEN 1 ELSE 0,
                                       ai |-> 1, add |-> 1, list |-> 0]]
                    ELSE [req[r] EXCEPT !.pc = "list", !.kind = kind, !.cookie = cookie,
                                        !.userId = k, !.cold = ~doReady[k],
                                        !.calls = Bump(@, "list")])
          /\ clock' = IF kind = "analyze" THEN clock + 1 ELSE clock
    /\ UNCHANGED <<calc, apiKey, DOVars>>

\* --------------------------------------------------------------------- Next

Next ==
    \/ \E r \in Reqs : Receive(r)
    \/ \E r \in Reqs : ParseBody(r)
    \/ \E r \in Reqs : PageFetched(r)
    \/ \E r \in Reqs : VitalsFetched(r)
    \/ \E r \in Reqs : AIReturned(r)
    \/ \E r \in Reqs : StoreReturned(r)
    \/ \E r \in Reqs : HistoryReturned(r)
    \/ \E k \in Keys : DOLoad(k)
    \/ \E r \in Reqs : DOReceiveAdd(r)
    \/ \E r \in Reqs : DOBodyRead(r)
    \/ \E r \in Reqs : DOPutDone(r)
    \/ \E r \in Reqs : DOList(r)

\* A client that sends one request after the other, with every input of the
\* pipeline.
Spec == Init /\ [][Next]_vars

\* The deployment without a PageSpeed key (README: the key is optional).
StoreInit == InitWith(MaxStoreRequests, StoreStoredLens) /\ ~apiKey

StoreNext ==
    \/ \E r \in Reqs : Submit(r)
    \/ \E k \in Keys : DOLoad(k)
    \/ \E r \in Reqs : DOReceiveAdd(r)
    \/ \E r \in Reqs : DOBodyRead(r)
    \/ \E r \in Reqs : DOPutDone(r)
    \/ \E r \in Reqs : DOList(r)

\* Concurrent requests on the history stores, up to the answers of the
\* stores: what the worker does with an answer changes no store.
StoreSpec == StoreInit /\ [][StoreNext]_vars

\* ------------------------------------------------------------ fallback scorer

\* worker.ts:16-43  PageMetrics.  A title or a description is a string; the
\* counts are non-negative integers.
BaseMetrics ==
    [url |-> "https://example.com", title |-> "", description |-> "",
     h1Count |-> 0, imgCount |-> 0, imgWithAltCount |-> 0, scriptCount |-> 0,
     inlineStyleCount |-> 0, htmlLength |-> 0, hasViewport |-> FALSE,
     hasLang |-> FALSE, hasCanonical |-> FALSE, hasOpenGraph |-> FALSE,
     hasStructuredData |-> FALSE, hasCharset |-> FALSE, isHttps |-> FALSE,
     linkCount |-> 0, internalLinkCount |-> 0, externalLinkCount |-> 0,
     hasH1 |-> FALSE, uniqueH1 |-> FALSE, textToHtmlRatio |-> 0]

\* Math.min(x, 100)
Clamp(x) == IF x < 100 THEN x ELSE 100

Points(cond, n) == IF cond THEN n ELSE 0

\* worker.ts:527-533 and 567
SeoScore(m) ==
    Clamp(50 + Points(m.title # "", 10) + Points(m.description # "", 10)
             + Points(m.hasH1, 10) + Points(m.hasCanonical, 5)
             + Points(m.hasOpenGraph, 5) + Points(m.uniqueH1, 10))

\* worker.ts:535-538 and 568
PerfScore(m) ==
    Clamp(70 + Points(m.htmlLength < 50000, 10) + Points(m.scriptCount < 10, 10)
             + Points(m.inlineStyleCount = 0, 10))

\* Faulty variant of A11yScore: every image without alt text costs points.
A11yScoreWithPenalty(m) ==
    Clamp(50 - 20 * (m.imgCount - m.imgWithAltCount)
             + Points(m.hasLang, 10) + Points(m.hasViewport, 10))

\* worker.ts:540-544 and 569  (imgWithAltCount > imgCount / 2 is a comparison
\* of reals: twice the count against imgCount)
A11yScore(m) ==
    Clamp(50 + (IF m.imgCount > 0 /\ m.imgWithAltCount = m.imgCount THEN 30
                ELSE IF 2 * m.imgWithAltCount > m.imgCount THEN 15
                ELSE 0)
             + Points(m.hasLang, 10) + Points(m.hasViewport, 10))

\* Faulty variant of BestPracticesScore: the viewport bonus is 10, not 15.
BestPracticesScoreViewport10(m) ==
    Clamp(60 + Points(m.isHttps, 15) + Points(m.hasCharset, 10)
             + Points(m.hasViewport, 10))

\* worker.ts:546-549 and 570
BestPracticesScore(m) ==
    Clamp(60 + Points(m.isHttps, 15) + Points(m.hasCharset, 10)
             + Points(m.hasViewport, 15))

\* A JSON value as far as the worker looks at it: tag is its type, scores
\* the four entries of a scores object (Undefined for a missing one), items
\* the elements of an array.
NoScores ==
    [seo |-> Undefined, performance |-> Undefined, accessibility |-> Undefined,
     bestPractices |-> Undefined]
JValue(tag) == [tag |-> tag, scores |-> NoScores, items |-> <<>>]
JScores(seo, perf, a11y, bp) ==
    [tag |-> "object",
     scores |-> [seo |-> seo, performance |-> perf, accessibility |-> a11y,
                 bestPractices |-> bp],
     items |-> <<>>]
JArray(items) == [tag |-> "array", scores |-> NoScores, items |-> items]

\* One finding or recommendation: level is its type or its priority, count
\* the number its description quotes.
Item(level, category, title, count) ==
    [level |-> level, category |-> category, title |-> title, count |-> count]

When(cond, item) == IF cond THEN <<item>> ELSE <<>>

\* Faulty variant of Findings: the positive findings are pushed first.
FindingsPositiveFirst(m) ==
    When(m.isHttps, Item("positive", "best-practices", "Using HTTPS", 0))
    \o When(m.title # "", Item("positive", "seo", "Has Title Tag", 0))
    \o When(m.title = "", Item("critical", "seo", "Missing Title", 0))
    \o When(m.description = "", Item("warning", "seo", "Missing Meta Description", 0))
    \o When(~m.hasH1, Item("critical", "seo", "Missing H1", 0))
    \o When(m.imgWithAltCount < m.imgCount,
            Item("warning", "accessibility", "Missing Alt Text",
                 m.imgCount - m.imgWithAltCount))
    \o When(~m.isHttps, Item("critical", "best-practices", "Not HTTPS", 0))

\* worker.ts:551-558
Findings(m) ==
    When(m.title = "", Item("critical", "seo", "Missing Title", 0))
    \o When(m.description = "", Item("warning", "seo", "Missing Meta Description", 0))
    \o When(~m.hasH1, Item("critical", "seo", "Missing H1", 0))
    \o When(m.imgWithAltCount < m.imgCount,
            Item("warning", "accessibility", "Missing Alt Text",
                 m.imgCount - m.imgWithAltCount))
    \o When(~m.isHttps, Item("critical", "best-practices", "Not HTTPS", 0))
    \o When(m.isHttps, Item("positive", "best-practices", "Using HTTPS", 0))
    \o When(m.title # "", Item("positive", "seo", "Has Title Tag", 0))

\* worker.ts:560-564
Recommendations(m) ==
    When(~m.hasCanonical, Item("medium", "", "Add Canonical URL", 0))
    \o When(~m.hasOpenGraph, Item("medium", "", "Add Open Graph Tags", 0))
    \o When(m.scriptCount > 15, Item("high", "", "Reduce Script Count", 0))
    \o When(~m.hasStructuredData, Item("low", "", "Add Structured Data", 0))

\* findings.filter(f => f.type === level).length
LevelCount(items, level) ==
    Cardinality({i \in 1..Len(items) : items[i].level = level})

\* worker.ts:575
Summary(findings) ==
    "This website has " \o ToString(LevelCount(findings, "critical"))
    \o " critical issues and " \o ToString(LevelCount(findings, "warning"))
    \o " warnings. Focus on improving SEO fundamentals and accessibility."

\* worker.ts:525-577  (coreWebVitals is not set by the scorer)
CreateFallbackAnalysis(m) ==
    [scores |-> JScores(SeoScore(m), PerfScore(m), A11yScore(m),
                        BestPracticesScore(m)),
     findings |-> JArray(Findings(m)),
     recommendations |-> JArray(Recommendations(m)),
     summary |-> Summary(Findings(m)),
     coreWebVitals |-> UnsetVitals]

\* -------------------------------------------------------------- analyzeWithAI

\* worker.ts:500  JavaScript truthiness of a parsed JSON value: a missing
\* property, null, false, 0 and "" are falsy; every object, every array
\* (the empty one too) and every other string or number is truthy.
Truthy(v) == v.tag \notin {"absent", "null", "false", "zero", "empty-string"}

\* The object JSON.parse returns, as far as the worker looks at it.
AiObject(scores, findings, recommendations) ==
    [scores |-> scores, findings |-> findings,
     recommendations |-> recommendations, summary |-> "generated",
     coreWebVitals |-> UnsetVitals]

NoObject == AiObject(JValue("absent"), JValue("absent"), JValue("absent"))

\* What ai.run() gives: it throws; its response is empty (worker.ts:487
\* then takes '{}'); its text has no {...}; the {...} does not parse; or
\* the {...} parses to object.
Completion(kind, object) == [kind |-> kind, object |-> object]

\* Faulty variant of AnalyzeWithAI: the validation forgets recommendations.
AnalyzeWithAIForgetsRecommendations(completion, m) ==
    IF completion.kind \in {"throws", "no-json", "parse-error"}
    THEN CreateFallbackAnalysis(m)
    ELSE IF ~Truthy(completion.object.scores) \/ ~Truthy(completion.object.findings)
    THEN CreateFallbackAnalysis(m)
    ELSE completion.object

\* worker.ts:478-519
AnalyzeWithAI(completion, m) ==
    IF completion.kind = "throws" THEN CreateFallbackAnalysis(m)
    ELSE IF completion.kind = "no-json" THEN CreateFallbackAnalysis(m)
    ELSE IF completion.kind = "parse-error" THEN CreateFallbackAnalysis(m)
    ELSE IF \/ ~Truthy(completion.object.scores)
            \/ ~Truthy(completion.object.findings)
            \/ ~Truthy(completion.object.recommendations)
    THEN CreateFallbackAnalysis(m)
    ELSE completion.object

\* A coreWebVitals block the generative model makes up in its JSON.
InventedVitals ==
    [AllUnavailable("0.8 s") EXCEPT !.lcp.status = "good", !.source = "estimated"]

\* Faulty variant of Attach: a block the analysis already carries is kept.
AttachIfMissing(analysis, cwv) ==
    IF analysis.coreWebVitals = UnsetVitals
    THEN [analysis EXCEPT !.coreWebVitals = cwv]
    ELSE analysis

\* worker.ts:149  analysis.coreWebVitals = coreWebVitals
Attach(analysis, cwv) == [analysis EXCEPT !.coreWebVitals = cwv]

\* Values the generative model puts under scores, and under findings or
\* recommendations.
AiScores ==
    {JValue("absent"), JValue("null"), JValue("zero"), JValue("string"),
     JScores(85, 90, 75, 80), JScores(150, 90, 75, 80),
     JScores(85, Undefined, 75, 80)}
AiLists ==
    {JValue("absent"), JValue("null"), JValue("string"), JValue("object"),
     JArray(<<>>), JArray(<<Item("warning", "seo", "Generated", 0)>>)}

Completions ==
    {Completion(kind, NoObject) : kind \in {"throws", "empty", "no-json", "parse-error"}}
    \cup {Completion("object", AiObject(s, f, rc)) :
            s \in AiScores, f \in AiLists, rc \in AiLists}
    \cup {Completion("object", [AiObject(s, f, rc) EXCEPT !.coreWebVitals = InventedVitals]) :
            s \in AiScores, f \in AiLists, rc \in AiLists}

\* The page of the scenario of section 8 of the specification.
ScenarioMetrics ==
    [BaseMetrics EXCEPT !.h1Count = 1, !.hasH1 = TRUE, !.uniqueH1 = TRUE,
                        !.imgCount = 3, !.scriptCount = 2, !.htmlLength = 400,
                        !.hasViewport = TRUE, !.hasCharset = TRUE,
                        !.isHttps = TRUE]

\* A page that has everything the scorer looks for.
FullMetrics ==
    [BaseMetrics EXCEPT !.title = "Title", !.description = "Description",
                        !.h1Count = 1, !.hasH1 = TRUE, !.uniqueH1 = TRUE,
                        !.imgCount = 2, !.imgWithAltCount = 2,
                        !.htmlLength = 60000, !.scriptCount = 16,
                        !.hasViewport = TRUE, !.hasLang = TRUE,
                        !.hasCanonical = TRUE, !.hasOpenGraph = TRUE,
                        !.hasStructuredData = TRUE, !.hasCharset = TRUE,
                        !.isHttps = TRUE]

\* The worker and the stores at rest while one function is evaluated.
AtRest ==
    /\ apiKey = TRUE
    /\ clock = 1
    /\ req = <<>>
    /\ doReady = <<>>
    /\ reports = <<>>
    /\ storage = <<>>
    /\ putting = <<>>
    /\ added = <<>>
    /\ arrival = <<>>
    /\ acked = <<>>

RestVars == <<apiKey, clock, req, DOVars>>

\* worker.ts:140-146  handleAnalyze has the metrics and the vitals and
\* calls analyzeWithAI.
AnalysisInit ==
    /\ AtRest
    /\ \E c \in Completions, m \in {BaseMetrics, ScenarioMetrics, FullMetrics},
          v \in {NoKeyVitals, FailedVitals, MeasuredVitals(PsiFull)} :
          calc = [fn |-> "analyzeWithAI", phase |-> "called", completion |-> c,
                  metrics |-> m, cwv |-> v,
                  report |-> MakeReport(0, NoObject, 0), status |-> 0]

\* worker.ts:146-177  analyzeWithAI returns; the vitals are attached, the
\* report is built around the serialized analysis, and the request is
\* answered.
Analyze ==
    /\ calc.fn = "analyzeWithAI"
    /\ calc.phase = "called"
    /\ LET analysis == Attach(AnalyzeWithAI(calc.completion, calc.metrics), calc.cwv)
       IN  calc' = [calc EXCEPT !.phase = "returned",
                                !.report = MakeReport(1, analysis, clock),
                                !.status = 200]
    /\ UNCHANGED RestVars

AnalysisSpec == AnalysisInit /\ [][Analyze]_vars

\* ------------------------------------------------------- fetchCoreWebVitals

\* Scores a lab audit carries, in hundredths of the 0-1 score.
Scores == 0..100

\* Lab audits and field metrics of a PageSpeed response.
Audits ==
    {NoAudit} \cup {Audit(s, d) : s \in Scores \cup {Undefined}, d \in {"", "1.2 s"}}
Fields == {NoField, Field(2400)}

\* A PageSpeed response: base with the audit and the field metric of metric x
\* replaced (the response carries no field metric for ttfb that the worker
\* reads).
WithMetric(base, x, audit, field) ==
    [audits |-> [base.audits EXCEPT ![x] = audit],
     field |-> IF x = "ttfb" THEN base.field
               ELSE [base.field EXCEPT ![x] = field]]

\* worker.ts:203-220  the PageSpeed call has answered with data.
VitalsInit ==
    /\ AtRest
    /\ \E base \in PsiResponses, x \in Metrics5, a \in Audits, f \in Fields :
          calc = [fn |-> "fetchCoreWebVitals", phase |-> "called", metric |-> x,
                  data |-> WithMetric(base, x, a, f), result |-> UnsetVitals]

\* worker.ts:222-286
Measure ==
    /\ calc.fn = "fetchCoreWebVitals"
    /\ calc.phase = "called"
    /\ calc' = [calc EXCEPT !.phase = "returned",
                            !.result = MeasuredVitals(calc.data)]
    /\ UNCHANGED RestVars

VitalsSpec == VitalsInit /\ [][Measure]_vars

\* ---------------------------------------------------- createFallbackAnalysis

\* Values of the fields of PageMetrics that the scorer reads.
Titles == {"", "Title"}
Descriptions == {"", "Description"}
HtmlLengths == {400, 49999, 50000}
ScriptCounts == {2, 10, 16}
InlineStyleCounts == {0, 1}
\* <<imgCount, imgWithAltCount>>
Images == {<<0, 0>>, <<3, 0>>, <<2, 1>>, <<3, 2>>, <<3, 3>>}

ScoredMetrics(t, d, len, sc, st, img, b) ==
    [BaseMetrics EXCEPT !.title = t, !.description = d, !.htmlLength = len,
                        !.scriptCount = sc, !.inlineStyleCount = st,
                        !.imgCount = img[1], !.imgWithAltCount = img[2],
                        !.h1Count = IF b[1] THEN 1 ELSE 0,
                        !.hasH1 = b[1], !.uniqueH1 = b[2], !.hasCanonical = b[3],
                        !.hasOpenGraph = b[4], !.hasLang = b[5],
                        !.hasViewport = b[6], !.isHttps = b[7],
                        !.hasCharset = b[8], !.hasStructuredData = b[9]]

\* worker.ts:501-518  analyzeWithAI turns to the fallback scorer.
ScoreInit ==
    /\ AtRest
    /\ \E t \in Titles, d \in Descriptions, len \in HtmlLengths,
          sc \in ScriptCounts, st \in InlineStyleCounts, img \in Images,
          b \in [1..9 -> BOOLEAN] :
          calc = [fn |-> "createFallbackAnalysis", phase |-> "called",
                  metrics |-> ScoredMetrics(t, d, len, sc, st, img, b),
                  result |-> NoObject]

\* worker.ts:525-577
Score ==
    /\ calc.fn = "createFallbackAnalysis"
    /\ calc.phase = "called"
    /\ calc' = [calc EXCEPT !.phase = "returned",
                            !.result = CreateFallbackAnalysis(calc.metrics)]
    /\ UNCHANGED RestVars

ScoreSpec == ScoreInit /\ [][Score]_vars

\* ------------------------------------------------------------- extractMetrics

\* The markup of a page is a sequence of elements.  An element is an H1
\* whose content is text, an H1 whose content holds a tag
\* (<h1><b>Hello</b></h1>), an anchor with a quoted href, or a paragraph.
Element(kind, text, href) == [kind |-> kind, text |-> text, href |-> href]

H1Texts == {"Hello", " Hello ", "", "World"}

Hrefs ==
    {"https://example.com/about", "https://other.org/", "http://", "/about",
     "page.html", "#top", "ftp://files.other.org/a.zip", "httpdocs/index.html"}

Elements ==
    {Element("h1", t, "") : t \in H1Texts}
    \cup {Element("h1-nested", "Hello", ""), Element("p", "text", "")}
    \cup {Element("a", "link", h) : h \in Hrefs}

\* The markups of at most n elements.
Markups(n) == UNION {[1..len -> Elements] : len \in 0..n}

\* URLs of the analysed page.
SourceUrls == {"https://example.com", "http://example.com/page"}

\* String.prototype.startsWith
StartsWith(s, prefix) ==
    Len(s) >= Len(prefix) /\ SubSeq(s, 1, Len(prefix)) = prefix

RECURSIVE TrimStart(_)
TrimStart(s) ==
    IF Len(s) > 0 /\ SubSeq(s, 1, 1) = " " THEN TrimStart(SubSeq(s, 2, Len(s)))
    ELSE s

RECURSIVE TrimEnd(_)
TrimEnd(s) ==
    IF Len(s) > 0 /\ SubSeq(s, Len(s), Len(s)) = " "
    THEN TrimEnd(SubSeq(s, 1, Len(s) - 1))
    ELSE s

\* String.prototype.trim
Trim(s) == TrimEnd(TrimStart(s))

\* new URL(u): it throws on a string that is no absolute URL, and the
\* hostname of the others is as follows.
UrlParses(u) ==
    u \in SourceUrls \cup {"https://example.com/about", "https://other.org/",
                           "ftp://files.other.org/a.zip"}
Hostname(u) ==
    CASE u \in SourceUrls \cup {"https://example.com/about"} -> "example.com"
      [] u = "https://other.org/" -> "other.org"
      [] u = "ftp://files.other.org/a.zip" -> "files.other.org"

\* worker.ts:340  html.match(/<h1[^>]*>([^<]*)<\/h1>/gi): the H1 elements
\* whose content holds no tag
H1Tags(html) == SelectSeq(html, LAMBDA e : e.kind = "h1")

\* worker.ts:344
UniqueH1Values(html) ==
    {Trim(H1Tags(html)[i].text) : i \in 1..Len(H1Tags(html))}

\* worker.ts:374
LinkTags(html) == SelectSeq(html, LAMBDA e : e.kind = "a")

\* worker.ts:382-396  the counter that the href of one anchor increments
LinkBucket(href, url) ==
    IF StartsWith(href, "http")
    THEN IF UrlParses(href)
         THEN IF Hostname(href) = Hostname(url) THEN "internal" ELSE "external"
         ELSE "none"
    ELSE IF StartsWith(href, "/") \/ ~StartsWith(href, "#") THEN "internal"
    ELSE "none"

LinkCountOf(html, url, bucket) ==
    Cardinality({i \in 1..Len(LinkTags(html)) :
                    LinkBucket(LinkTags(html)[i].href, url) = bucket})

\* Further elements: a run of text, a script and a style block, an image
\* without alt attribute, an image whose alt attribute is text (empty or
\* not), and an image button, which is no <img> but carries an alt attribute.
ContentElements ==
    {Element("text", t, "") : t \in {"Hello world", " a  b "}}
    \cup {Element("script", "var x = 1;", ""), Element("style", "p { }", ""),
          Element("img", "", ""), Element("input", "Go", "")}
    \cup {Element("img-alt", t, "") : t \in {"Logo", ""}}
    \cup {Element("a", "link", h) : h \in {"/about", "https://other.org/", "#top"}}

ContentMarkups(n) == UNION {[1..len -> ContentElements] : len \in 0..n}

\* The characters of an element in html.
Raw(e) ==
    CASE e.kind = "h1" -> "<h1>" \o e.text \o "</h1>"
      [] e.kind = "h1-nested" -> "<h1><b>" \o e.text \o "</b></h1>"
      [] e.kind = "p" -> "<p>" \o e.text \o "</p>"
      [] e.kind = "a" -> "<a href='" \o e.href \o "'>" \o e.text \o "</a>"
      [] e.kind = "text" -> e.text
      [] e.kind = "script" -> "<script>" \o e.text \o "</script>"
      [] e.kind = "style" -> "<style>" \o e.text \o "</style>"
      [] e.kind = "img" -> "<img src='a.png'>"
      [] e.kind = "img-alt" -> "<img src='a.png' alt='" \o e.text \o "'>"
      [] e.kind = "input" -> "<input type='image' alt='" \o e.text \o "'>"

\* worker.ts:401-403  what the first three replace() calls leave of an
\* element: nothing of a script or style block, a space for every other tag.
Untagged(e) ==
    CASE e.kind \in {"script", "style"} -> ""
      [] e.kind = "text" -> e.text
      [] e.kind \in {"h1", "p", "a"} -> " " \o e.text \o " "
      [] e.kind = "h1-nested" -> "  " \o e.text \o "  "
      [] e.kind \in {"img", "img-alt", "input"} -> " "

RECURSIVE RawMarkup(_)
RawMarkup(html) ==
    IF html = <<>> THEN "" ELSE Raw(Head(html)) \o RawMarkup(Tail(html))

RECURSIVE UntaggedMarkup(_)
UntaggedMarkup(html) ==
    IF html = <<>> THEN "" ELSE Untagged(Head(html)) \o UntaggedMarkup(Tail(html))

\* worker.ts:404  replace(/\s+/g, ' ')
RECURSIVE CollapseWhitespace(_)
CollapseWhitespace(s) ==
    IF Len(s) = 0 THEN ""
    ELSE IF SubSeq(s, 1, 1) = " "
    THEN " " \o CollapseWhitespace(TrimStart(s))
    ELSE SubSeq(s, 1, 1) \o CollapseWhitespace(SubSeq(s, 2, Len(s)))

\* worker.ts:401-405
TextContent(html) == Trim(CollapseWhitespace(UntaggedMarkup(html)))

\* Faulty variant of TextRatio: Math.floor in the place of Math.round.
TextRatioFloor(textLength, htmlLength) ==
    IF htmlLength > 0 THEN (100 * textLength) \div htmlLength ELSE 0

\* worker.ts:406 and 435  Math.round((textLength / htmlLength) * 100), 0 for
\* the empty markup.  Math.round takes an exact half upwards; whether a
\* quotient lands on an exact half is a matter of the double arithmetic.
TextRatio(textLength, htmlLength) ==
    IF htmlLength > 0 THEN (200 * textLength + htmlLength) \div (2 * htmlLength) ELSE 0

\* worker.ts:346
ImgTags(html) == SelectSeq(html, LAMBDA e : e.kind \in {"img", "img-alt"})

\* worker.ts:347  /alt\s*=\s*["'][^"']+["']/i.test(tag)
HasAlt(e) == e.kind \in {"img-alt", "input"} /\ e.text # ""

\* Faulty variant of ImgWithAlt: the alt attributes are looked for in the
\* whole markup.
ImgWithAltInAnyTag(html) == SelectSeq(html, HasAlt)

\* worker.ts:347
ImgWithAlt(html) == SelectSeq(ImgTags(html), HasAlt)

\* worker.ts:350 and 352
TagCount(html, kind) == Cardinality({i \in 1..Len(html) : html[i].kind = kind})

\* worker.ts:331-437  (the modelled elements carry no title and no meta or
\* link tag, so the fields read from these keep their empty value)
ExtractMetrics(html, url) ==
    [BaseMetrics EXCEPT
        !.url = url,
        !.imgCount = Len(ImgTags(html)),
        !.imgWithAltCount = Len(ImgWithAlt(html)),
        !.scriptCount = TagCount(html, "script"),
        !.inlineStyleCount = TagCount(html, "style"),
        !.htmlLength = Len(RawMarkup(html)),
        !.textToHtmlRatio = TextRatio(Len(TextContent(html)), Len(RawMarkup(html))),
        !.h1Count = Len(H1Tags(html)),
        !.isHttps = StartsWith(url, "https://"),
        !.linkCount = Len(LinkTags(html)),
        !.internalLinkCount = LinkCountOf(html, url, "internal"),
        !.externalLinkCount = LinkCountOf(html, url, "external"),
        !.hasH1 = Len(H1Tags(html)) > 0,
        !.uniqueH1 = (Cardinality(UniqueH1Values(html)) = 1 /\ Len(H1Tags(html)) > 0)]

\* worker.ts:139-140  the page has been fetched and its markup read.
ExtractInit ==
    /\ AtRest
    /\ \E html \in Markups(MaxTags), url \in SourceUrls :
          calc = [fn |-> "extractMetrics", phase |-> "called", html |-> html,
                  url |-> url, result |-> BaseMetrics]

Extract ==
    /\ calc.fn = "extractMetrics"
    /\ calc.phase = "called"
    /\ calc' = [calc EXCEPT !.phase = "returned",
                            !.result = ExtractMetrics(calc.html, calc.url)]
    /\ UNCHANGED RestVars

ExtractSpec == ExtractInit /\ [][Extract]_vars

\* The same call on the markups of images, scripts, styles, text and links
\* of a page.
ContentInit ==
    /\ AtRest
    /\ \E html \in ContentMarkups(MaxTags) :
          calc = [fn |-> "extractMetrics", phase |-> "called", html |-> html,
                  url |-> "https://example.com", result |-> BaseMetrics]

ContentSpec == ContentInit /\ [][Extract]_vars

\* ------------------------------------------------------------------- claims

Take(s, n) == SubSeq(s, 1, IF Len(s) < n THEN Len(s) ELSE n)

\* The n oldest elements of a newest-first sequence.
Oldest(s, n) == SubSeq(s, Len(s) - n + 1, Len(s))

Range(s) == {s[i] : i \in 1..Len(s)}

Count(ids, id) == Cardinality({i \in 1..Len(ids) : ids[i] = id})

IsAdd(r) == req[r].kind = "analyze" /\ req[r].calls.add > 0

IsList(r) == req[r].kind = "history"

Listed(r) == IsList(r) /\ req[r].pc \in {"listed", "done"}

\* Reports persisted before the first request of the behaviour.
OldCount(k) == Cardinality({i \in 1..Len(added[k]) : added[k][i] < 0})

\* C1: the log of a key never holds more than 50 reports, in memory or in
\* persistence; the log in memory is the 50 most recently added reports,
\* newest first, and so is every list() answer for the adds made before it.
C1_LogBounded ==
    \A k \in Keys :
        /\ Len(reports[k]) <= MaxReports
        /\ Len(storage[k]) <= MaxReports
        /\ doReady[k] => Ids(reports[k]) = Take(added[k], MaxReports)
        /\ \A r \in Reqs :
              Listed(r) /\ req[r].userId = k =>
                  /\ Len(req[r].snapshot) <= MaxReports
                  /\ Ids(req[r].snapshot) = Take(Oldest(added[k], req[r].seen), MaxReports)

\* C1 witness: more than 50 reports were added and a list() answer holds
\* exactly 50, the last one added at its head.
C1_Witness ==
    \E r \in Reqs :
        /\ Listed(r)
        /\ req[r].seen > MaxReports
        /\ Len(req[r].snapshot) = MaxReports
        /\ req[r].snapshot[1].id > 0
        /\ req[r].snapshot[1].id = added[req[r].userId][1]
        /\ req[r].snapshot[MaxReports].id = -(MaxReports - 1)

AddsTo(k) == {r \in Reqs : IsAdd(r) /\ req[r].userId = k}

AllAcknowledged(k) == \A r \in AddsTo(k) : req[r].pc \in {"acked", "done"} /\ req[r].doStatus = 200

\* C2: once every add issued to a key has been acknowledged with success,
\* and no more than 50 reports were added in all, the log in memory and the
\* persisted log each hold every added report exactly once.
C2_NoLostAdd ==
    \A k \in Keys :
        AllAcknowledged(k) /\ doReady[k] /\ Len(added[k]) <= MaxReports =>
            \A id \in AddsTo(k) \cup Range(added[k]) :
                /\ Count(Ids(reports[k]), id) = 1
                /\ Count(Ids(storage[k]), id) = 1

\* C2 witness: two adds of one key were in the store at the same time (the
\* second to arrive was the first to be inserted) and both are acknowledged.
C2_Witness ==
    \E k \in Keys :
        /\ Cardinality(AddsTo(k)) >= 2
        /\ AllAcknowledged(k)
        /\ Len(arrival[k]) >= 2
        /\ added[k][1] = arrival[k][1]
        /\ Len(added[k]) <= MaxReports

Pos(s, x) == CHOOSE i \in 1..Len(s) : s[i] = x

\* C3: adds of one key complete in the order in which they reached the
\* store, and a report whose add reached the store later is nearer the head
\* of the log.
C3_CompletionInIssueOrder ==
    \A k \in Keys :
        /\ \A i, j \in 1..Len(acked[k]) :
              i < j => Pos(arrival[k], acked[k][i]) < Pos(arrival[k], acked[k][j])
        /\ \A i, j \in 1..Len(reports[k]) :
              (i < j /\ reports[k][i].id > 0 /\ reports[k][j].id > 0) =>
                  Pos(arrival[k], reports[k][i].id) > Pos(arrival[k], reports[k][j].id)

\* C4: no add or list is processed before the load has finished: every
\* persisted log and every list() answer is the capped log of the initially
\* persisted reports followed by some of the adds, never a log that lacks
\* the initially persisted reports.
C4_ColdStartBarrier ==
    /\ \A r \in Reqs :
          req[r].pc \in {"do_body", "do_put", "acked", "listed"} => doReady[req[r].userId]
    /\ \A k \in Keys :
          \E n \in OldCount(k)..Len(added[k]) :
              Ids(storage[k]) = Take(Oldest(added[k], n), MaxReports)
    /\ \A r \in Reqs :
          Listed(r) =>
              /\ req[r].seen >= OldCount(req[r].userId)
              /\ Ids(req[r].snapshot) =
                    Take(Oldest(added[req[r].userId], req[r].seen), MaxReports)

\* C4 witness: a list and an add were both issued before the load of a
\* store with persisted reports had finished; the list was answered with the
\* persisted reports and the add persisted a full log.
C4_Witness ==
    \E r1, r2 \in Reqs :
        /\ req[r1].cold /\ Listed(r1) /\ req[r1].snapshot # <<>>
        /\ req[r2].cold /\ IsAdd(r2) /\ req[r2].doStatus = 200
        /\ req[r1].userId = req[r2].userId
        /\ Len(storage[req[r2].userId]) = MaxReports
        /\ OldCount(req[r2].userId) > 0

\* C5: the step that acknowledges an add with success leaves the persisted
\* log equal to the log in memory, at most 50 long, with the added report at
\* its head.
C5_AckAfterPersist ==
    [][\A r \in Reqs :
          (req[r].pc = "do_put" /\ req'[r].pc = "acked" /\ req'[r].doStatus = 200) =>
              LET k == req[r].userId IN
              /\ storage'[k] = reports'[k]
              /\ Len(storage'[k]) <= MaxReports
              /\ storage'[k][1] = req[r].report]_vars

\* C5 witness: an add has just been acknowledged with success and its report
\* is the head of the persisted log.
C5_Witness ==
    \E r \in Reqs :
        /\ req[r].pc = "acked" /\ req[r].doStatus = 200
        /\ storage[req[r].userId][1] = req[r].report
        /\ Len(storage[req[r].userId]) > 1

\* Bodies that are JSON objects whose url is missing or does not start with
\* http:// or https://.
InvalidUrlBodies == {"no-url", "empty", "zero", "number", "other-scheme"}

IsAnalyze(r) == req[r].kind = "analyze"

Answered(r) == req[r].pc = "done"

\* C6: when the store answers an add with a failure, POST /analyze answers
\* with a 5xx error and no report; when POST /analyze answers with the
\* report, the report is in the persisted log of the user.
C6_PersistFailureSurfaces ==
    \A r \in Reqs :
        IsAnalyze(r) /\ Answered(r) =>
            /\ req[r].doStatus = 500 =>
                  req[r].resp.status >= 500 /\ req[r].resp.body # "report"
            /\ (req[r].resp.status = 200 /\ req[r].resp.body = "report") =>
                  req[r].report.id \in Range(Ids(storage[req[r].userId]))

\* C7: a POST /analyze whose url is missing or does not start with http://
\* or https:// is answered with a 4xx error and makes no outbound call.
C7_InvalidUrlRejected ==
    \A r \in Reqs :
        IsAnalyze(r) /\ req[r].body \in InvalidUrlBodies =>
            /\ Answered(r)
            /\ req[r].resp.status \in 400..499
            /\ req[r].resp.body = "error"
            /\ req[r].calls = NoCalls

InNoLog(id) ==
    \A k \in Keys :
        /\ id \notin Range(Ids(reports[k]))
        /\ id \notin Range(Ids(storage[k]))
        /\ id \notin Range(added[k])
        /\ id \notin Range(arrival[k])

\* C8: when the page fetch throws or answers a non-success status, the
\* request is answered 400 after that one fetch, with no measurement call,
\* no generative call and no add, and its report is in no history log.
C8_FetchFailure ==
    \A r \in Reqs :
        req[r].pout \in {"throws", "not-ok"} =>
            /\ Answered(r)
            /\ req[r].resp.status = 400
            /\ req[r].resp.body = "error"
            /\ req[r].calls = [NoCalls EXCEPT !.page = 1]
            /\ req[r].report = NoReport
            /\ InNoLog(r)

\* C8 witness: two requests of the same user, the first stored a report, the
\* fetch of the second answered a non-success status, and the log still
\* holds the first report only.
C8_Witness ==
    \E r1, r2 \in Reqs :
        /\ req[r2].pout = "not-ok" /\ Answered(r2) /\ req[r2].cookie = KnownUser
        /\ req[r1].userId = KnownUser /\ req[r1].doStatus = 200
        /\ Ids(storage[KnownUser]) = <<r1>>
        /\ Ids(reports[KnownUser]) = <<r1>>

AllMetricsUnavailable(v) == \A m \in Metrics5 : v[m].status = "unavailable"

\* C9: without a credential, and when the measurement call fails, the vitals
\* are a value with every metric unavailable and source unavailable; the
\* message of one case is never that of the other; the request is answered
\* with the report.
C9_VitalsNeverFail ==
    \A r \in Reqs :
        req[r].vout \in {"no-key", "failed"} =>
            /\ AllMetricsUnavailable(req[r].cwv)
            /\ req[r].cwv.source = "unavailable"
            /\ req[r].vout = "no-key" =>
                  \A m \in Metrics5 : req[r].cwv[m].value # FailedVitals[m].value
            /\ req[r].vout = "failed" =>
                  \A m \in Metrics5 : req[r].cwv[m].value # NoKeyVitals[m].value
            /\ req[r].pc \in {"ai", "store", "do_body", "do_put", "acked", "done"}
            /\ Answered(r) => req[r].resp.status = 200 /\ req[r].resp.body = "report"

\* C9 witness: a request whose measurement call failed has been answered
\* with its report, which carries the degraded vitals.
C9_Witness ==
    \E r \in Reqs :
        /\ req[r].vout = "failed" /\ Answered(r)
        /\ req[r].resp.status = 200
        /\ req[r].report.reportText.coreWebVitals.lcp.value = "Measurement failed"

SourceInvariant(v) == v.source = "unavailable" => AllMetricsUnavailable(v)

LogSourceInvariant(log) ==
    \A i \in 1..Len(log) : SourceInvariant(log[i].reportText.coreWebVitals)

\* C10: in every value fetchCoreWebVitals returned and in every vitals block
\* of a report (of a request, of a log in memory, of a persisted log, of a
\* list() answer), source = unavailable implies that the five metrics are
\* unavailable.
C10_UnavailableSource ==
    /\ \A r \in Reqs :
          /\ req[r].vout # "" => SourceInvariant(req[r].cwv)
          /\ req[r].report # NoReport =>
                SourceInvariant(req[r].report.reportText.coreWebVitals)
          /\ LogSourceInvariant(req[r].snapshot)
    /\ \A k \in Keys : LogSourceInvariant(reports[k]) /\ LogSourceInvariant(storage[k])

\* C10 witness: the persisted log holds the report of a request whose
\* measurement call failed, and the report of one whose call succeeded.
C10_Witness ==
    \E k \in Keys : \E i, j \in 1..Len(storage[k]) :
        /\ storage[k][i].id > 0
        /\ req[storage[k][i].id].vout = "failed"
        /\ storage[k][i].reportText.coreWebVitals.source = "unavailable"
        /\ storage[k][j].reportText.coreWebVitals.source = "pagespeed"

\* The completion is one of the invalid ones of section 4.4: the call threw,
\* the text holds no JSON object, the object does not parse, or one of the
\* three required fields is missing.
Invalid(completion) ==
    \/ completion.kind \in {"throws", "empty", "no-json", "parse-error"}
    \/ \E f \in {"scores", "findings", "recommendations"} :
          completion.object[f].tag = "absent"

Analysed == calc.fn = "analyzeWithAI" /\ calc.phase = "returned"

\* C11: when the generative call throws, or its completion holds no JSON
\* object, does not parse, or lacks one of scores / findings /
\* recommendations, the analysis of the report is createFallbackAnalysis of
\* the metrics with the measured vitals attached, and the request is
\* answered 200.
C11_GenerationFailureFallsBack ==
    (Analysed /\ Invalid(calc.completion)) =>
        /\ calc.report.reportText =
              [CreateFallbackAnalysis(calc.metrics) EXCEPT !.coreWebVitals = calc.cwv]
        /\ calc.status = 200

C11_Witness ==
    /\ Analysed
    /\ calc.completion.kind = "object"
    /\ calc.completion.object.recommendations.tag = "absent"
    /\ Truthy(calc.completion.object.scores)
    /\ Truthy(calc.completion.object.findings)
    /\ calc.metrics = ScenarioMetrics
    /\ calc.report.reportText.scores = JScores(70, 100, 60, 100)
    /\ calc.report.reportText.coreWebVitals.source = "pagespeed"

Measured == calc.fn = "fetchCoreWebVitals" /\ calc.phase = "returned"

\* The score the response reports for metric x: Undefined when the audit is
\* missing or carries no score.
Reported(data, x) ==
    IF data.audits[x].present THEN data.audits[x].score ELSE Undefined

FieldValue(x, field) ==
    IF x = "cls" THEN FormatMetric(field.percentile, "")
    ELSE FormatMetric(field.percentile * 100, "ms")

\* C13: on a successful measurement, the entry of each metric that has field
\* data shows the field measurement; the lab audit is used only when the
\* metric has no field data.
C13_FieldPreferred ==
    Measured =>
        \A x \in Metrics5 \ {"ttfb"} :
            calc.data.field[x].present =>
                calc.result[x].value = FieldValue(x, calc.data.field[x])

Scored == calc.fn = "createFallbackAnalysis" /\ calc.phase = "returned"

ScoreNames == {"seo", "performance", "accessibility", "bestPractices"}

\* C14: each of the four fallback scores is an integer from 0 to 100,
\* whatever the metrics.
C14_FallbackScoresInRange ==
    Scored =>
        /\ calc.result.scores.tag = "object"
        /\ \A k \in ScoreNames : calc.result.scores.scores[k] \in 0..100

C14_Witness ==
    /\ Scored
    /\ calc.metrics.imgCount = 3
    /\ calc.metrics.imgWithAltCount = 0
    /\ ~calc.metrics.hasLang
    /\ ~calc.metrics.hasViewport
    /\ calc.result.scores.scores.accessibility = 50
    /\ calc.result.scores.scores.performance = 100

Min100(x) == IF x > 100 THEN 100 ELSE x
Ind(cond) == IF cond THEN 1 ELSE 0

\* C15: the fallback scores are those of the point table of section 4.3, for
\* every metrics record; for the scenario of section 8 they are 70, 100, 60
\* and 100.
C15_PointTable ==
    Scored =>
        LET m == calc.metrics
            s == calc.result.scores.scores
        IN  /\ s.seo = Min100(50 + 10 * Ind(m.title # "") + 10 * Ind(m.description # "")
                               + 10 * Ind(m.hasH1) + 5 * Ind(m.hasCanonical)
                               + 5 * Ind(m.hasOpenGraph) + 10 * Ind(m.uniqueH1))
            /\ s.performance = Min100(70 + 10 * Ind(m.htmlLength < 50000)
                                       + 10 * Ind(m.scriptCount < 10)
                                       + 10 * Ind(m.inlineStyleCount = 0))
            /\ s.accessibility =
                  Min100(50 + 30 * Ind(m.imgCount > 0 /\ m.imgWithAltCount = m.imgCount)
                            + 15 * Ind(~(m.imgCount > 0 /\ m.imgWithAltCount = m.imgCount)
                                       /\ 2 * m.imgWithAltCount > m.imgCount)
                            + 10 * Ind(m.hasLang) + 10 * Ind(m.hasViewport))
            /\ s.bestPractices = Min100(60 + 15 * Ind(m.isHttps) + 10 * Ind(m.hasCharset)
                                         + 15 * Ind(m.hasViewport))
            /\ (m = ScenarioMetrics =>
                  /\ s.seo = 70
                  /\ s.performance = 100
                  /\ s.accessibility = 60
                  /\ s.bestPractices = 100)

C15_Witness ==
    /\ Scored
    /\ calc.metrics = ScenarioMetrics
    /\ calc.result.scores = JScores(70, 100, 60, 100)

\* C16: the analysis serialized into a report has four integer scores from 0
\* to 100 and findings and recommendations that are sequences, whether it
\* came from the generative model or from the fallback scorer.
C16_ReportAnalysisWellFormed ==
    Analysed =>
        LET analysis == calc.report.reportText
        IN  /\ analysis.scores.tag = "object"
            /\ \A k \in ScoreNames : analysis.scores.scores[k] \in 0..100
            /\ analysis.findings.tag = "array"
            /\ analysis.recommendations.tag = "array"

Extracted == calc.fn = "extractMetrics" /\ calc.phase = "returned"

\* The H1 elements of a markup, with or without tags in their content.
H1Elements(html) == {i \in 1..Len(html) : html[i].kind \in {"h1", "h1-nested"}}

\* C17: uniqueH1 is true exactly when the markup has one H1 element and the
\* trimmed text of that element is not empty; no H1, several H1s (with the
\* same text or not) and a single H1 with empty text give false.
C17_UniqueH1 ==
    Extracted =>
        (calc.result.uniqueH1 <=>
            /\ Cardinality(H1Elements(calc.html)) = 1
            /\ \A i \in H1Elements(calc.html) : Trim(calc.html[i].text) # "")

\* What an href is, read as a URL reference: an absolute URL (scheme and
\* host), a malformed absolute URL, a pure fragment, or a relative
\* reference.
HrefKind(href) ==
    CASE href \in {"https://example.com/about", "https://other.org/",
                   "ftp://files.other.org/a.zip"} -> "absolute"
      [] href = "http://" -> "malformed"
      [] href = "#top" -> "fragment"
      [] href \in {"/about", "page.html", "httpdocs/index.html"} -> "relative"

Anchors(html) == {i \in 1..Len(html) : html[i].kind = "a"}

\* The counter the claim gives the href of an anchor to.
ClaimedBucket(href, url) ==
    CASE HrefKind(href) = "absolute" /\ Hostname(href) = Hostname(url) -> "internal"
      [] HrefKind(href) = "absolute" /\ Hostname(href) # Hostname(url) -> "external"
      [] HrefKind(href) = "relative" -> "internal"
      [] HrefKind(href) \in {"malformed", "fragment"} -> "none"

\* C18: every anchor with an href counts once in linkCount; an absolute URL
\* of the page's host counts as internal only, an absolute URL of another
\* host as external only, a relative or root-relative href that is not a
\* pure fragment as internal only, and a malformed absolute URL or a pure
\* fragment as neither.
C18_LinkClassification ==
    Extracted =>
        /\ calc.result.linkCount = Cardinality(Anchors(calc.html))
        /\ \A bucket \in {"internal", "external"} :
              (IF bucket = "internal" THEN calc.result.internalLinkCount
               ELSE calc.result.externalLinkCount)
              = Cardinality({i \in Anchors(calc.html) :
                                ClaimedBucket(calc.html[i].href, calc.url) = bucket})

\* Request r is at a step of addReport or listReports that is taken when the
\* store of its key delivers it.
AtStore(r) == req[r].pc \in {"store", "do_body", "list"}

\* Request r takes a step inside the store of its key.
StoreStep(r) ==
    /\ req[r].pc \in {"store", "do_body", "do_put", "list"}
    /\ req'[r] # req[r]

\* C20: list() changes neither the log in memory nor the persisted log of
\* its key; an add or a list on one key changes no log of another key; and
\* an operation on a key whose store has loaded and has no write of its own
\* pending can proceed, whatever the stores of the other keys are doing.
C20_KeyIsolation ==
    [][/\ \A r \in Reqs :
             (req[r].pc = "list" /\ req'[r].pc = "listed") =>
                 (reports' = reports /\ storage' = storage)
       /\ \A r \in Reqs :
             StoreStep(r) =>
                 \A k \in Keys \ {req[r].userId} :
                     reports'[k] = reports[k] /\ storage'[k] = storage[k]
       /\ \A r \in Reqs :
             (AtStore(r) /\ doReady[req[r].userId] /\ putting[req[r].userId] = <<>>) =>
                 ENABLED (DOReceiveAdd(r) \/ DOBodyRead(r) \/ DOList(r))
      ]_vars

C20_Witness ==
    \E r, q \in Reqs :
        /\ req[r].userId # req[q].userId
        /\ req[r].pc = "do_put"
        /\ putting[req[r].userId] # <<>>
        /\ req[q].pc = "listed"
        /\ reports[req[q].userId] = req[q].snapshot
        /\ storage[req[q].userId] = <<>>

\* C21: the coreWebVitals block of the analysis serialized into a report is
\* the value fetchCoreWebVitals returned for the request, for a generated
\* analysis (whatever block the completion carried) and for a fallback
\* analysis alike.
C21_VitalsFromMeasurement ==
    Analysed => calc.report.reportText.coreWebVitals = calc.cwv

C21_Witness ==
    /\ Analysed
    /\ calc.completion.kind = "object"
    /\ calc.completion.object.coreWebVitals = InventedVitals
    /\ calc.report.reportText.scores = calc.completion.object.scores
    /\ calc.report.reportText.scores.tag = "object"
    /\ calc.cwv = FailedVitals
    /\ calc.report.reportText.coreWebVitals = FailedVitals

\* The cookie header of a request carries a user_id token.
CarriesToken(cookie) == cookie \notin {NoCookie, EmptyToken}

\* C22: a request whose cookie carries a user_id token uses the store of that
\* token and gets no Set-Cookie header; any other request uses the store of
\* a token minted for it, which its successful response returns in a
\* Set-Cookie header.
C22_SessionToken ==
    \A r \in Reqs :
        (req[r].pc = "done" /\ req[r].resp.status = 200) =>
            IF CarriesToken(req[r].cookie)
            THEN /\ req[r].userId = req[r].cookie
                 /\ req[r].resp.setCookie = NoCookie
            ELSE /\ req[r].userId = r
                 /\ \A q \in Reqs \ {r} : req[q].userId # r
                 /\ req[r].resp.setCookie = req[r].userId

\* The rows of the tables of section 4.3, in their order: the condition of a
\* row, and the entry it emits.
FindingRows(m) ==
    << <<m.title = "", Item("critical", "seo", "Missing Title", 0)>>,
       <<m.description = "", Item("warning", "seo", "Missing Meta Description", 0)>>,
       <<~m.hasH1, Item("critical", "seo", "Missing H1", 0)>>,
       <<m.imgWithAltCount < m.imgCount,
         Item("warning", "accessibility", "Missing Alt Text",
              m.imgCount - m.imgWithAltCount)>>,
       <<~m.isHttps, Item("critical", "best-practices", "Not HTTPS", 0)>>,
       <<m.isHttps, Item("positive", "best-practices", "Using HTTPS", 0)>>,
       <<m.title # "", Item("positive", "seo", "Has Title Tag", 0)>> >>

RecommendationRows(m) ==
    << <<~m.hasCanonical, Item("medium", "", "Add Canonical URL", 0)>>,
       <<~m.hasOpenGraph, Item("medium", "", "Add Open Graph Tags", 0)>>,
       <<m.scriptCount > 15, Item("high", "", "Reduce Script Count", 0)>>,
       <<~m.hasStructuredData, Item("low", "", "Add Structured Data", 0)>> >>

\* The entries of the rows whose condition holds, in the order of the rows.
RECURSIVE Emitted(_)
Emitted(rows) ==
    IF rows = <<>> THEN <<>>
    ELSE (IF Head(rows)[1] THEN <<Head(rows)[2]>> ELSE <<>>) \o Emitted(Tail(rows))

\* C23: the fallback analysis lists exactly the findings and the
\* recommendations of the rows whose condition holds, in the order of the
\* tables, and its summary quotes the number of critical and of warning
\* findings of that list.
C23_FindingsAndRecommendations ==
    Scored =>
        LET m == calc.metrics
            findings == Emitted(FindingRows(m))
            critical == Cardinality({i \in 1..Len(findings) : findings[i].level = "critical"})
            warning == Cardinality({i \in 1..Len(findings) : findings[i].level = "warning"})
        IN  /\ calc.result.findings = JArray(findings)
            /\ calc.result.recommendations = JArray(Emitted(RecommendationRows(m)))
            /\ calc.result.summary =
                  "This website has " \o ToString(critical) \o " critical issues and "
                  \o ToString(warning)
                  \o " warnings. Focus on improving SEO fundamentals and accessibility."

C23_Witness ==
    /\ Scored
    /\ calc.metrics = ScenarioMetrics
    /\ Len(calc.result.findings.items) = 4
    /\ calc.result.findings.items[3].title = "Missing Alt Text"
    /\ calc.result.findings.items[3].count = 3
    /\ calc.result.findings.items[4].title = "Using HTTPS"
    /\ Len(calc.result.recommendations.items) = 3
    /\ calc.result.summary =
          "This website has 1 critical issues and 2 warnings. Focus on improving SEO fundamentals and accessibility."

\* The write that request r started ends in this step, answered with status.
PutEnds(r, status) ==
    /\ req[r].pc = "do_put"
    /\ req'[r].pc = "acked"
    /\ req'[r].doStatus = status

\* C24: when the write of an add fails the store answers 500, the log in
\* memory keeps the report at its head and the persisted log keeps its
\* previous value; a list() answers with the log in memory, that report
\* included; and a write that succeeds persists the whole log in memory.
C24_FailedWriteNotRolledBack ==
    [][\A r \in Reqs :
          LET k == req[r].userId IN
          /\ (req[r].pc = "do_put" /\ req'[r].pc = "acked") =>
                 req'[r].doStatus \in {200, 500}
          /\ PutEnds(r, 500) =>
                 /\ reports'[k] = reports[k]
                 /\ Len(reports[k]) > 0
                 /\ reports[k][1] = req[r].report
                 /\ storage'[k] = storage[k]
          /\ PutEnds(r, 200) =>
                 /\ reports'[k] = reports[k]
                 /\ storage'[k] = reports[k]
          /\ (req[r].pc = "list" /\ req'[r].pc = "listed") =>
                 req'[r].snapshot = reports[k]
      ]_vars

C24_Witness ==
    \E r, q \in Reqs :
        /\ r # q
        /\ req[r].userId = req[q].userId
        /\ req[r].pc = "acked" /\ req[r].doStatus = 500
        /\ req[q].pc = "acked" /\ req[q].doStatus = 200
        /\ Len(added[req[r].userId]) >= 2
        /\ added[req[r].userId][1] = q /\ added[req[r].userId][2] = r
        /\ storage[req[r].userId] = reports[req[r].userId]
        /\ reports[req[r].userId][2] = req[r].report

\* Log new is log old with at most n reports that old does not hold put in
\* front of it, and with reports dropped from the tail of old only when new
\* is at the cap: what old still holds is unmodified and in its order.
Extends(new, old, n) ==
    \E fresh \in 0..n :
        LET kept == Len(new) - fresh IN
        /\ kept >= 0 /\ kept <= Len(old)
        /\ SubSeq(new, fresh + 1, Len(new)) = SubSeq(old, 1, kept)
        /\ kept < Len(old) => Len(new) = MaxReports
        /\ \A i \in 1..fresh : \A j \in 1..Len(old) : new[i].id # old[j].id

\* C25: a step of a store changes its log in memory only by putting one new
\* report in front and dropping what lies beyond position 50, and its
\* persisted log only by bringing it to the log in memory; a stored report
\* is never modified, never reordered against the others, and removed only
\* from the tail at the cap.
C25_LogOnlyGrowsAtHead ==
    [][\A k \in Keys :
          /\ IF doReady[k] THEN Extends(reports'[k], reports[k], 1)
             ELSE reports'[k] \in {reports[k], storage[k]}
          /\ storage'[k] # storage[k] =>
                 /\ storage'[k] = reports[k]
                 /\ Extends(storage'[k], storage[k], Len(storage'[k]))
      ]_vars

C25_Witness ==
    \E k \in Keys :
        /\ doReady[k]
        /\ Len(storage[k]) = MaxReports
        /\ storage[k][1].id > 0
        /\ storage[k][2].id < 0
        /\ storage[k][MaxReports] = OldReport(MaxReports - 1)
        /\ reports[k] = storage[k]

\* C26: a request issues each outbound call at most once (the calls of
\* POST /analyze: page fetch, measurement, generative completion, history
\* add); a failed page fetch ends the request with an error before any other
\* call, a failed measurement gives the degraded vitals and a failed
\* generation the fallback analysis, and the request goes on.
C26_NoRetry ==
    \A r \in Reqs :
        /\ \A what \in DOMAIN req[r].calls : req[r].calls[what] <= 1
        /\ (req[r].kind = "analyze" /\ req[r].pout \in {"throws", "not-ok"}) =>
              /\ req[r].pc = "done"
              /\ req[r].resp = ClientError
              /\ req[r].calls = [NoCalls EXCEPT !.page = 1]
        /\ (req[r].kind = "analyze" /\ req[r].vout = "failed") =>
              /\ req[r].cwv = FailedVitals
              /\ req[r].calls.psi = 1
              /\ req[r].calls.ai = 1
              /\ req[r].pc = "done" => req[r].resp.status = 200
        /\ (req[r].kind = "analyze" /\ req[r].report.reportText.origin = "fallback") =>
              /\ req[r].calls.ai = 1
              /\ req[r].calls.add = 1
              /\ req[r].pc = "done" => req[r].resp.status = 200

C26_Witness ==
    \E r \in Reqs :
        /\ req[r].pc = "done"
        /\ req[r].vout = "failed"
        /\ req[r].report.reportText.origin = "fallback"
        /\ req[r].report.reportText.coreWebVitals = FailedVitals
        /\ req[r].calls = [page |-> 1, psi |-> 1, ai |-> 1, add |-> 1, list |-> 0]
        /\ req[r].resp.status = 200

C30_CountsConsistent ==
    Extracted =>
        LET m == calc.result
            findings == CreateFallbackAnalysis(m).findings.items
        IN  /\ m.internalLinkCount >= 0 /\ m.externalLinkCount >= 0
            /\ m.internalLinkCount + m.externalLinkCount <= m.linkCount
            /\ m.imgWithAltCount >= 0
            /\ m.imgWithAltCount <= m.imgCount
            /\ m.scriptCount >= 0 /\ m.inlineStyleCount >= 0 /\ m.h1Count >= 0
            /\ \A i \in 1..Len(findings) : findings[i].count >= 0

C30_Witness ==
    /\ Extracted
    /\ calc.html = <<Element("input", "Go", ""), Element("img", "", ""),
                     Element("a", "link", "#top")>>
    /\ calc.result.imgCount = 1
    /\ calc.result.imgWithAltCount = 0
    /\ calc.result.linkCount = 1
    /\ calc.result.internalLinkCount + calc.result.externalLinkCount = 0

\* No write of the store of key k has failed.
NoFailedWrite(k) ==
    \A r \in Reqs : (req[r].userId = k /\ req[r].pc = "acked") => req[r].doStatus = 200

\* C28: while no write of a store has failed, whenever the store has no
\* write pending (so after every add it has acknowledged) the persisted
\* value is the log in memory, report by report, and holds at most 50
\* reports, however adds and lists interleave.
C28_PersistedEqualsMemory ==
    \A k \in Keys :
        (doReady[k] /\ putting[k] = <<>> /\ NoFailedWrite(k)) =>
            /\ storage[k] = reports[k]
            /\ Len(storage[k]) <= MaxReports

C28_Witness ==
    \E r, q \in Reqs :
        LET k == req[r].userId IN
        /\ r < q
        /\ req[q].userId = k
        /\ req[r].pc = "acked" /\ req[r].doStatus = 200
        /\ req[q].pc = "acked" /\ req[q].doStatus = 200
        /\ acked[k] = <<q, r>>
        /\ Len(storage[k]) = MaxReports
        /\ storage[k][1].id = r /\ storage[k][2].id = q
        /\ storage[k] = reports[k]

NonIncreasingCreatedAt(log) ==
    \A i \in 1..(Len(log) - 1) : log[i].createdAt >= log[i + 1].createdAt

\* C29: for every user, the history that list() answers, in every state of
\* every interleaving of concurrent analyses, is ordered by non-increasing
\* createdAt.
C29_HistoryNewestFirst ==
    \A k \in Keys : doReady[k] => NonIncreasingCreatedAt(Snapshot(reports[k]))

====
